---- MODULE Spec2Model ----
(***************************************************************************)
(* AegisProtector (aegis_sdk/aegis_protector.py): a reversible redaction   *)
(* mapper holding a forward index _mapping (text -> placeholder) and a     *)
(* reverse index _reverse_mapping (placeholder -> text).                   *)
(*                                                                         *)
(* Spec      sequential callers of redact / unredact / validate_integrity  *)
(* SpecConc  several callers inside redact at once, one dict operation or  *)
(*           local computation per step                                    *)
(* SpecVI    validate_integrity applied to arbitrary index contents        *)
(* SpecTwo   sequential callers of two AegisProtector instances            *)
(***************************************************************************)
EXTENDS Integers, Sequences, FiniteSets, TLC

VARIABLES
    _mapping,          \* self._mapping: text -> placeholder
    _reverse_mapping,  \* self._reverse_mapping: placeholder -> text
    last,              \* the last completed call: its arguments and outcome
    returned,          \* the <<text, placeholder>> pairs redact has returned
    pc,                \* SpecConc: each caller's position inside redact
    local,             \* SpecConc: each caller's text, placeholder, result
    mappers,           \* SpecTwo: the dict pair each __init__ call created
    history            \* SpecTwo: per instance, what its redact calls returned

vars == <<_mapping, _reverse_mapping, last, returned, pc, local, mappers, history>>

-----------------------------------------------------------------------------
(* Bounds of the model *)

NumTexts == 5
NumCategories == 4
NumThreads == 2
NumConcTexts == 3
NumViTexts == 2
NumViPlaceholders == 2
NumTwoTexts == 3

Min(a, b) == IF a < b THEN a ELSE b

-----------------------------------------------------------------------------
(* Strings.  A text is a TLA+ string.  A category label is a sequence of   *)
(* one-character strings so that str.upper() can act on its characters.    *)

RECURSIVE Join(_)
Join(chars) == IF chars = <<>> THEN "" ELSE Head(chars) \o Join(Tail(chars))

LowerChars == <<"a", "b", "c", "d", "e", "f", "g", "h", "i", "j", "k", "l", "m",
                "n", "o", "p", "q", "r", "s", "t", "u", "v", "w", "x", "y", "z">>
UpperChars == <<"A", "B", "C", "D", "E", "F", "G", "H", "I", "J", "K", "L", "M",
                "N", "O", "P", "Q", "R", "S", "T", "U", "V", "W", "X", "Y", "Z">>

\* entity_type.upper(): each lower-case letter becomes its capital, every
\* other character stays
upper(chars) ==
    [i \in DOMAIN chars |->
        IF \E k \in DOMAIN LowerChars : LowerChars[k] = chars[i]
        THEN UpperChars[CHOOSE k \in DOMAIN LowerChars : LowerChars[k] = chars[i]]
        ELSE chars[i]]

\* The entity_type argument: None (the default) or a string
None == [given |-> FALSE, val |-> <<>>]
Str(chars) == [given |-> TRUE, val |-> chars]

\* the test of line 36 written "is not None": an empty string passes it
is_not_none(entity_type) == entity_type.given

\* Python truth value of entity_type: None and "" are both false
Truthy(entity_type) == entity_type.given /\ entity_type.val # <<>>

AllCategories ==
    << None,
       Str(<<"e", "m", "a", "i", "l">>),
       Str(<<"E", "M", "A", "I", "L">>),
       Str(<<>>),
       Str(<<"s", "s", "n">>),
       Str(<<"E", "m", "a", "i", "l">>) >>

Categories == {AllCategories[i] : i \in 1..Min(NumCategories, Len(AllCategories))}

\* stands for the one-character Python str '\ud800', a lone surrogate
LoneSurrogate == "\\ud800"

\* The texts callers pass.  "user90137" and "user118756" are two strings
\* whose SHA-256 digests agree on the first 8 hex digits.
AllTexts == <<"user90137", "user118756", "", LoneSurrogate, "Bob", "Alice", "x">>

Texts == {AllTexts[i] : i \in 1..Min(NumTexts, Len(AllTexts))}

\* hashlib.sha256(text.encode()).hexdigest(), its first 12 hex digits
sha256_hexdigest(text) ==
    CASE text = "user90137"  -> <<"c","2","9","d","b","c","0","5","c","d","b","b">>
      [] text = "user118756" -> <<"c","2","9","d","b","c","0","5","9","2","2","b">>
      [] text = ""           -> <<"e","3","b","0","c","4","4","2","9","8","f","c">>
      [] text = "Alice"      -> <<"3","b","c","5","1","0","6","2","9","7","3","c">>
      [] text = "Bob"        -> <<"c","d","9","f","b","1","e","1","4","8","c","c">>
      [] text = "x"          -> <<"2","d","7","1","1","6","4","2","b","7","2","6">>

\* the [:8] of line 34
DigestLen == 8

NoExc == [type |-> "", msg |-> ""]

\* text.encode() of line 34: the utf-8 codec refuses a str that holds a
\* surrogate code point
encode_raises(text) == text = LoneSurrogate

UnicodeEncodeError ==
    [type |-> "UnicodeEncodeError",
     msg |-> "'utf-8' codec can't encode character: surrogates not allowed"]

-----------------------------------------------------------------------------
(* redact, lines 15-44 *)

\* lines 34-39 with a digest cut too short
placeholder_short_digest(text, entity_type) ==
    LET text_hash == Join(SubSeq(sha256_hexdigest(text), 1, 1))
    IN  IF Truthy(entity_type)
        THEN "[REDACTED_" \o Join(upper(entity_type.val)) \o "_" \o text_hash \o "]"
        ELSE "[REDACTED_" \o text_hash \o "]"

\* lines 34-39 without the upper()
placeholder_no_upper(text, entity_type) ==
    LET text_hash == Join(SubSeq(sha256_hexdigest(text), 1, DigestLen))
    IN  IF Truthy(entity_type)
        THEN "[REDACTED_" \o Join(entity_type.val) \o "_" \o text_hash \o "]"
        ELSE "[REDACTED_" \o text_hash \o "]"

\* lines 34-39: the placeholder of a text seen for the first time
make_placeholder(text, entity_type) ==
    LET text_hash == Join(SubSeq(sha256_hexdigest(text), 1, DigestLen))
    IN  IF Truthy(entity_type)
        THEN "[REDACTED_" \o Join(upper(entity_type.val)) \o "_" \o text_hash \o "]"
        ELSE "[REDACTED_" \o text_hash \o "]"

\* dict item assignment d[k] = v: inserts k, or overwrites the value of k
SetItem(d, k, v) == (k :> v) @@ d

\* redact without the early return of lines 29-30
redact_recompute(m, r, text, entity_type) ==
    LET placeholder == make_placeholder(text, entity_type)
    IN  IF encode_raises(text)
        THEN [mapping |-> m, reverse_mapping |-> r, ret |-> "",
              exc |-> UnicodeEncodeError]
        ELSE [mapping |-> SetItem(m, text, placeholder),
              reverse_mapping |-> SetItem(r, placeholder, text),
              ret |-> placeholder, exc |-> NoExc]

\* redact with the arguments of line 42 swapped: the reverse index is keyed
\* by the text
redact_reverse_swapped(m, r, text, entity_type) ==
    IF text \in DOMAIN m
    THEN [mapping |-> m, reverse_mapping |-> r, ret |-> m[text], exc |-> NoExc]
    ELSE IF encode_raises(text)
    THEN [mapping |-> m, reverse_mapping |-> r, ret |-> "",
          exc |-> UnicodeEncodeError]
    ELSE LET placeholder == make_placeholder(text, entity_type)
         IN  [mapping |-> SetItem(m, text, placeholder),
              reverse_mapping |-> SetItem(r, text, placeholder),
              ret |-> placeholder, exc |-> NoExc]

\* redact numbering its placeholders by order of arrival instead of hashing
redact_numbered(m, r, text, entity_type) ==
    IF text \in DOMAIN m
    THEN [mapping |-> m, reverse_mapping |-> r, ret |-> m[text], exc |-> NoExc]
    ELSE LET placeholder ==
                 "[REDACTED_" \o ToString(Cardinality(DOMAIN m) + 1) \o "]"
         IN  [mapping |-> SetItem(m, text, placeholder),
              reverse_mapping |-> SetItem(r, placeholder, text),
              ret |-> placeholder, exc |-> NoExc]

\* redact(self, text, entity_type): the indices afterwards, the result, the
\* error.  The encode of line 34 raises before anything is written.
redact(m, r, text, entity_type) ==
    IF text \in DOMAIN m
    THEN [mapping |-> m, reverse_mapping |-> r, ret |-> m[text], exc |-> NoExc]
    ELSE IF encode_raises(text)
    THEN [mapping |-> m, reverse_mapping |-> r, ret |-> "",
          exc |-> UnicodeEncodeError]
    ELSE LET placeholder == make_placeholder(text, entity_type)
         IN  [mapping |-> SetItem(m, text, placeholder),
              reverse_mapping |-> SetItem(r, placeholder, text),
              ret |-> placeholder, exc |-> NoExc]

-----------------------------------------------------------------------------
(* unredact, lines 46-62 *)

\* ValueError(f"Placeholder '{placeholder}' not found in mapping")
ValueError(placeholder) ==
    [type |-> "ValueError",
     msg |-> "Placeholder '" \o placeholder \o "' not found in mapping"]

\* unredact written with dict.get(placeholder, ""): no error on a miss
unredact_get_default(m, r, placeholder) ==
    [mapping |-> m, reverse_mapping |-> r,
     ret |-> IF placeholder \in DOMAIN r THEN r[placeholder] ELSE "",
     exc |-> NoExc]

\* unredact written with dict.pop: the entry is consumed by the lookup
unredact_pop(m, r, placeholder) ==
    IF placeholder \notin DOMAIN r
    THEN [mapping |-> m, reverse_mapping |-> r, ret |-> "",
          exc |-> ValueError(placeholder)]
    ELSE [mapping |-> m,
          reverse_mapping |-> [p \in DOMAIN r \ {placeholder} |-> r[p]],
          ret |-> r[placeholder], exc |-> NoExc]

\* unredact(self, placeholder): the indices afterwards, the result, the error
unredact(m, r, placeholder) ==
    IF placeholder \notin DOMAIN r
    THEN [mapping |-> m, reverse_mapping |-> r, ret |-> "",
          exc |-> ValueError(placeholder)]
    ELSE [mapping |-> m, reverse_mapping |-> r, ret |-> r[placeholder],
          exc |-> NoExc]

-----------------------------------------------------------------------------
(* validate_integrity, lines 64-94 *)

\* a for loop over dict items with an early "return False": visits the keys
\* left to visit one at a time; TRUE when the loop runs to its end
RECURSIVE forward_loop(_, _, _)
forward_loop(m, r, todo) ==
    IF todo = {} THEN TRUE
    ELSE LET text == CHOOSE t \in todo : TRUE
             placeholder == m[text]
         IN  IF placeholder \notin DOMAIN r THEN FALSE
             ELSE IF r[placeholder] # text THEN FALSE
             ELSE forward_loop(m, r, todo \ {text})

RECURSIVE reverse_loop(_, _, _)
reverse_loop(m, r, todo) ==
    IF todo = {} THEN TRUE
    ELSE LET placeholder == CHOOSE p \in todo : TRUE
             text == r[placeholder]
         IN  IF text \notin DOMAIN m THEN FALSE
             ELSE IF m[text] # placeholder THEN FALSE
             ELSE reverse_loop(m, r, todo \ {placeholder})

\* validate_integrity reduced to its length check of lines 77-78
validate_integrity_len_only(m, r) ==
    Cardinality(DOMAIN m) = Cardinality(DOMAIN r)

\* validate_integrity(self)
validate_integrity(m, r) ==
    IF Cardinality(DOMAIN m) # Cardinality(DOMAIN r) THEN FALSE
    ELSE IF ~forward_loop(m, r, DOMAIN m) THEN FALSE
    ELSE IF ~reverse_loop(m, r, DOMAIN r) THEN FALSE
    ELSE TRUE

-----------------------------------------------------------------------------
(* Sequential callers *)

EmptyDict == [k \in {} |-> ""]

Threads == 1..NumThreads

\* a caller's locals; fresh: the membership test of line 29 found no entry
IdleLocal == [text |-> "", placeholder |-> "", ret |-> "", fresh |-> FALSE]

\* fresh: the text had no entry in _mapping when redact began
\* inst: the instance called, where there are two
NoCall == [op |-> "none", inst |-> "", text |-> "", entity_type |-> None,
           fresh |-> FALSE,
           placeholder |-> "", ret |-> "", result |-> FALSE, exc |-> NoExc]

Instances == {"A", "B"}

\* the two dicts __init__ creates
NewMapper == [mapping |-> EmptyDict, reverse_mapping |-> EmptyDict]

\* calls: the <<text, entity_type>> of each redact that met its text for the
\* first time
NoHistory == [returned |-> {}, calls |-> {}]

\* __init__, lines 10-13
Init ==
    /\ _mapping = EmptyDict
    /\ _reverse_mapping = EmptyDict
    /\ last = NoCall
    /\ returned = {}
    /\ pc = [th \in Threads |-> "idle"]
    /\ local = [th \in Threads |-> IdleLocal]
    /\ mappers = [i \in Instances |-> NewMapper]
    /\ history = [i \in Instances |-> NoHistory]

\* every placeholder redact can build from the texts and categories, and
\* strings that are no such placeholder
UnredactInputs ==
    {make_placeholder(t, c) : t \in {x \in Texts : ~encode_raises(x)},
                              c \in Categories}
        \cup {"[REDACTED_UNKNOWN]", "[REDACTED__c29dbc05]", "Alice"}

Redact(text, entity_type) ==
    LET out == redact(_mapping, _reverse_mapping, text, entity_type)
    IN  /\ _mapping' = out.mapping
        /\ _reverse_mapping' = out.reverse_mapping
        /\ last' = [NoCall EXCEPT !.op = "redact", !.text = text,
                                  !.entity_type = entity_type,
                                  !.fresh = (text \notin DOMAIN _mapping),
                                  !.ret = out.ret, !.exc = out.exc]
        /\ returned' = IF out.exc = NoExc
                       THEN returned \cup {<<text, out.ret>>}
                       ELSE returned
        /\ UNCHANGED <<pc, local, mappers, history>>

Unredact(placeholder) ==
    LET out == unredact(_mapping, _reverse_mapping, placeholder)
    IN  /\ _mapping' = out.mapping
        /\ _reverse_mapping' = out.reverse_mapping
        /\ last' = [NoCall EXCEPT !.op = "unredact", !.placeholder = placeholder,
                                  !.ret = out.ret, !.exc = out.exc]
        /\ UNCHANGED <<returned, pc, local, mappers, history>>

ValidateIntegrity ==
    /\ last' = [NoCall EXCEPT !.op = "validate_integrity",
                              !.result = validate_integrity(_mapping, _reverse_mapping)]
    /\ UNCHANGED <<_mapping, _reverse_mapping, returned, pc, local, mappers, history>>

Next ==
    \/ \E text \in Texts, entity_type \in Categories : Redact(text, entity_type)
    \/ \E placeholder \in UnredactInputs : Unredact(placeholder)
    \/ ValidateIntegrity

Spec == Init /\ [][Next]_vars

-----------------------------------------------------------------------------
(* Properties of the sequential mapper *)

\* the two indices are exact inverses of equal size
ExactInverses(m, r) ==
    /\ Cardinality(DOMAIN m) = Cardinality(DOMAIN r)
    /\ \A t \in DOMAIN m : m[t] \in DOMAIN r /\ r[m[t]] = t
    /\ \A p \in DOMAIN r : r[p] \in DOMAIN m /\ m[r[p]] = p

\* the first 8 hex digits of the SHA-256 digest of a text
digest8(t) == Join(SubSeq(sha256_hexdigest(t), 1, 8))

ReturnedPlaceholders == {pair[2] : pair \in returned}

\* C1: after any sequence of redact calls the forward and the reverse index
\* are exact inverses of equal size and validate_integrity() returns true.
C1_IntegrityAfterRedacts ==
    /\ ExactInverses(_mapping, _reverse_mapping)
    /\ validate_integrity(_mapping, _reverse_mapping) = TRUE

\* C2: every placeholder p that a redact(t, c) has returned unredacts to t,
\* right after the call and after any further redact calls.
C2_RoundTrip ==
    \A pair \in returned :
        LET out == unredact(_mapping, _reverse_mapping, pair[2])
        IN  out.exc = NoExc /\ out.ret = pair[1]

\* C3: first write wins: every redact of a text returns the placeholder its
\* first redact returned, whatever category a later call passes and whatever
\* calls happened in between.
C3_FirstWriteWins ==
    /\ \A x, y \in returned : x[1] = y[1] => x[2] = y[2]
    /\ \A pair \in returned : \A c \in Categories :
           redact(_mapping, _reverse_mapping, pair[1], c).ret = pair[2]

\* a redact with a category that would build another placeholder returned the
\* stored one
C3_Witness ==
    /\ last.op = "redact"
    /\ ~last.fresh
    /\ last.ret # make_placeholder(last.text, last.entity_type)

\* C4: unredact(p) raises the lookup error naming p for every p that no redact
\* has returned, and succeeds only for a p that some redact returned.
C4_UnknownPlaceholderFails ==
    /\ \A p \in UnredactInputs :
           LET out == unredact(_mapping, _reverse_mapping, p)
           IN  /\ p \notin ReturnedPlaceholders =>
                     /\ out.exc.type = "ValueError"
                     /\ out.exc.msg = "Placeholder '" \o p \o "' not found in mapping"
               /\ out.exc = NoExc => p \in ReturnedPlaceholders
    /\ last.op = "unredact" =>
           (last.exc = NoExc <=> last.placeholder \in ReturnedPlaceholders)

\* an unredact of a well-formed placeholder nobody received failed while other
\* placeholders are known
C4_Witness ==
    /\ last.op = "unredact"
    /\ last.exc.type = "ValueError"
    /\ last.placeholder \in {make_placeholder("Bob", c) : c \in Categories}
    /\ returned # {}

\* the placeholder format with the category part present when a category is
\* passed (anything but None)
FormatWhenGiven(t, c) ==
    IF c.given
    THEN "[REDACTED_" \o Join(upper(c.val)) \o "_" \o digest8(t) \o "]"
    ELSE "[REDACTED_" \o digest8(t) \o "]"

\* the placeholder format with the category part present when a non-empty
\* category is passed
FormatWhenNonEmpty(t, c) ==
    IF c.given /\ c.val # <<>>
    THEN "[REDACTED_" \o Join(upper(c.val)) \o "_" \o digest8(t) \o "]"
    ELSE "[REDACTED_" \o digest8(t) \o "]"

\* C5 as stated: the first redact of a text returns and stores
\* "[REDACTED_" + UPPERCASE(category) + "_" + digest8 + "]" when a category is
\* given and "[REDACTED_" + digest8 + "]" when none is given.
C5_FormatAsStated ==
    (last.op = "redact" /\ last.fresh /\ last.exc = NoExc) =>
        /\ last.ret = FormatWhenGiven(last.text, last.entity_type)
        /\ _mapping[last.text] = last.ret

\* C5 amended: the category part is present when a non-empty category is given;
\* an omitted and an empty category both give "[REDACTED_" + digest8 + "]".
\* Two categories that differ only in letter case give an unseen text the same
\* placeholder.
C5_Format ==
    /\ (last.op = "redact" /\ last.fresh /\ last.exc = NoExc) =>
           /\ last.ret = FormatWhenNonEmpty(last.text, last.entity_type)
           /\ _mapping[last.text] = last.ret
    /\ \A t \in Texts \ DOMAIN _mapping : \A c1, c2 \in Categories :
           (c1.given /\ c2.given /\ upper(c1.val) = upper(c2.val)) =>
               redact(_mapping, _reverse_mapping, t, c1).ret
                   = redact(_mapping, _reverse_mapping, t, c2).ret

\* a first redact with a lower-case category returned the upper-cased format
C5_Witness ==
    /\ last.op = "redact"
    /\ last.fresh
    /\ last.text = "Bob"
    /\ last.entity_type = Str(<<"e", "m", "a", "i", "l">>)
    /\ last.ret = "[REDACTED_EMAIL_cd9fb1e1]"
    /\ _mapping["Bob"] = "[REDACTED_EMAIL_cd9fb1e1]"

C8_Step ==
    /\ \A t \in DOMAIN _mapping :
           t \in DOMAIN _mapping' /\ _mapping'[t] = _mapping[t]
    /\ \A p \in DOMAIN _reverse_mapping :
           p \in DOMAIN _reverse_mapping' /\ _reverse_mapping'[p] = _reverse_mapping[p]
    /\ (DOMAIN _mapping' # DOMAIN _mapping
            \/ DOMAIN _reverse_mapping' # DOMAIN _reverse_mapping) =>
           /\ last'.op = "redact"
           /\ last'.text \notin DOMAIN _mapping
           /\ Cardinality(DOMAIN _mapping') = Cardinality(DOMAIN _mapping) + 1

C8_EntriesNeverUpdated == [][C8_Step]_vars

\* C14: in every state of the sequential mapper, also when two texts share a
\* digest prefix and a category, the keys of the reverse index are exactly the
\* values of the forward index, the reverse index is no larger than the
\* forward index, and forward[reverse[p]] = p for every reverse key p.
C14_ReverseCoversForward ==
    /\ DOMAIN _reverse_mapping = {_mapping[t] : t \in DOMAIN _mapping}
    /\ Cardinality(DOMAIN _reverse_mapping) <= Cardinality(DOMAIN _mapping)
    /\ \A p \in DOMAIN _reverse_mapping :
           /\ _reverse_mapping[p] \in DOMAIN _mapping
           /\ _mapping[_reverse_mapping[p]] = p

\* two texts share one placeholder, the reverse index is the smaller one and
\* validate_integrity has reported it
C14_Witness ==
    /\ {"user90137", "user118756"} \subseteq DOMAIN _mapping
    /\ _mapping["user90137"] = _mapping["user118756"]
    /\ Cardinality(DOMAIN _reverse_mapping) < Cardinality(DOMAIN _mapping)
    /\ last.op = "validate_integrity"
    /\ last.result = FALSE

\* C16: an empty-string category is treated as no category: for every unseen
\* text, redact(t, "") does exactly what redact(t) does, returning and storing
\* "[REDACTED_" + digest8(t) + "]" with no additional underscore.
C16_EmptyCategoryIsNone ==
    /\ \A t \in Texts \ DOMAIN _mapping :
           LET out == redact(_mapping, _reverse_mapping, t, Str(<<>>))
           IN  /\ out = redact(_mapping, _reverse_mapping, t, None)
               /\ out.exc = NoExc =>
                      /\ out.ret = "[REDACTED_" \o digest8(t) \o "]"
                      /\ out.mapping[t] = out.ret
    /\ (/\ last.op = "redact" /\ last.fresh /\ last.exc = NoExc
        /\ last.entity_type = Str(<<>>)) =>
           /\ last.ret = "[REDACTED_" \o digest8(last.text) \o "]"
           /\ _mapping[last.text] = last.ret

\* a first redact with the empty category returned the format without a
\* category part
C16_Witness ==
    /\ last.op = "redact"
    /\ last.fresh
    /\ last.text = "Bob"
    /\ last.entity_type = Str(<<>>)
    /\ last.ret = "[REDACTED_cd9fb1e1]"
    /\ _mapping["Bob"] = "[REDACTED_cd9fb1e1]"

\* C11: the lookup error of unredact is the only error outcome: every redact
\* call returns a placeholder without error, for every string and category,
\* and every validate_integrity call returns a boolean without error.
C11_OnlyLookupFailure ==
    /\ last.op = "redact" => (last.exc = NoExc /\ last.ret = _mapping[last.text])
    /\ last.op = "validate_integrity" =>
           (last.exc = NoExc /\ last.result \in BOOLEAN)

\* C10: an unredact call leaves both indices as they were, whether it returns
\* a text or raises.
C10_UnredactNoSideEffects ==
    [][last'.op = "unredact" =>
           (_mapping' = _mapping /\ _reverse_mapping' = _reverse_mapping)]_vars

\* an unredact returned a text from a non-empty reverse index
C10_Witness ==
    /\ last.op = "unredact"
    /\ last.exc = NoExc
    /\ last.ret \in Texts
    /\ last.placeholder \in DOMAIN _reverse_mapping

-----------------------------------------------------------------------------
(* validate_integrity on arbitrary index contents: the two dicts are plain  *)
(* attributes, which a caller can fill directly                             *)

ViTexts == {AllTexts[i] : i \in 1..Min(NumViTexts, Len(AllTexts))}

AllViPlaceholders ==
    <<"[REDACTED_c29dbc05]", "[REDACTED_EMAIL_e3b0c442]", "[REDACTED_cd9fb1e1]",
      "[REDACTED_UNKNOWN]">>

ViPlaceholders ==
    {AllViPlaceholders[i] : i \in 1..Min(NumViPlaceholders, Len(AllViPlaceholders))}

\* every dict with keys among S and values among T
Dicts(S, T) == UNION {[D -> T] : D \in SUBSET S}

InitVI ==
    /\ _mapping \in Dicts(ViTexts, ViPlaceholders)
    /\ _reverse_mapping \in Dicts(ViPlaceholders, ViTexts)
    /\ last = NoCall
    /\ returned = {}
    /\ pc = [th \in Threads |-> "idle"]
    /\ local = [th \in Threads |-> IdleLocal]
    /\ mappers = [i \in Instances |-> NewMapper]
    /\ history = [i \in Instances |-> NoHistory]

NextVI == ValidateIntegrity

SpecVI == InitVI /\ [][NextVI]_vars

\* C9: validate_integrity() returns true exactly when the two indices are
\* exact inverses, false for every other contents, raises nothing and leaves
\* both indices unchanged.
C9_ValidateIffInverses ==
    /\ [](validate_integrity(_mapping, _reverse_mapping)
              = ExactInverses(_mapping, _reverse_mapping))
    /\ [][last'.op = "validate_integrity" =>
              /\ last'.result = ExactInverses(_mapping, _reverse_mapping)
              /\ last'.exc = NoExc
              /\ _mapping' = _mapping
              /\ _reverse_mapping' = _reverse_mapping]_vars

\* validate_integrity returned false on two indices of equal size that are
\* not inverses
C9_Witness ==
    /\ last.op = "validate_integrity"
    /\ last.result = FALSE
    /\ DOMAIN _mapping # {}
    /\ Cardinality(DOMAIN _mapping) = Cardinality(DOMAIN _reverse_mapping)

-----------------------------------------------------------------------------
(* Concurrent callers of redact.  Nothing in redact takes a lock, so another *)
(* caller can run between any two of its dict operations.                    *)

\* the texts the concurrent callers pass
ConcTexts == {AllTexts[i] : i \in 1..Min(NumConcTexts, Len(AllTexts))}

\* the placeholders the concurrent unredact callers pass
ConcUnredactInputs ==
    {make_placeholder(t, c) : t \in {x \in ConcTexts : ~encode_raises(x)},
                              c \in Categories}
        \cup {"[REDACTED_UNKNOWN]"}

\* lines 29-39: the membership test; a hit returns the stored placeholder, a
\* miss builds the placeholder in a local variable
RedactCheck(th, text, entity_type) ==
    /\ pc[th] = "idle"
    /\ IF text \in DOMAIN _mapping
       THEN /\ local' = [local EXCEPT ![th] =
                            [text |-> text, placeholder |-> "",
                             ret |-> _mapping[text], fresh |-> FALSE]]
            /\ pc' = [pc EXCEPT ![th] = "done"]
            /\ returned' = returned \cup {<<text, _mapping[text]>>}
       ELSE IF encode_raises(text)
       THEN \* line 34 raises: the call is over and nothing was written
            UNCHANGED <<local, pc, returned>>
       ELSE /\ local' = [local EXCEPT ![th] =
                            [text |-> text,
                             placeholder |-> make_placeholder(text, entity_type),
                             ret |-> "", fresh |-> TRUE]]
            /\ pc' = [pc EXCEPT ![th] = "l41"]
            /\ UNCHANGED returned
    /\ UNCHANGED <<_mapping, _reverse_mapping, last, mappers, history>>

\* line 41: self._mapping[text] = placeholder
RedactSetMapping(th) ==
    /\ pc[th] = "l41"
    /\ _mapping' = SetItem(_mapping, local[th].text, local[th].placeholder)
    /\ pc' = [pc EXCEPT ![th] = "l42"]
    /\ UNCHANGED <<_reverse_mapping, last, returned, local, mappers, history>>

\* lines 42-44: self._reverse_mapping[placeholder] = text; return placeholder
RedactSetReverse(th) ==
    /\ pc[th] = "l42"
    /\ _reverse_mapping' =
           SetItem(_reverse_mapping, local[th].placeholder, local[th].text)
    /\ local' = [local EXCEPT ![th].ret = local[th].placeholder]
    /\ returned' = returned \cup {<<local[th].text, local[th].placeholder>>}
    /\ pc' = [pc EXCEPT ![th] = "done"]
    /\ UNCHANGED <<_mapping, last, mappers, history>>

\* the caller has its result and is free to call again
RedactDone(th) ==
    /\ pc[th] = "done"
    /\ pc' = [pc EXCEPT ![th] = "idle"]
    /\ local' = [local EXCEPT ![th] = IdleLocal]
    /\ UNCHANGED <<_mapping, _reverse_mapping, last, returned, mappers, history>>

\* lines 59-62: another caller's unredact, run between two steps of the
\* callers inside redact; it only reads, and no entry is ever removed, so its
\* membership test and its lookup see the same reverse index
ConcUnredact(placeholder) ==
    LET out == unredact(_mapping, _reverse_mapping, placeholder)
    IN  /\ _mapping' = out.mapping
        /\ _reverse_mapping' = out.reverse_mapping
        /\ last' = [NoCall EXCEPT !.op = "unredact", !.placeholder = placeholder,
                                  !.ret = out.ret, !.exc = out.exc]
        /\ UNCHANGED <<returned, pc, local, mappers, history>>

NextConc ==
    \/ \E th \in Threads :
           \/ \E text \in ConcTexts, entity_type \in Categories :
                  RedactCheck(th, text, entity_type)
           \/ RedactSetMapping(th)
           \/ RedactSetReverse(th)
           \/ RedactDone(th)
    \/ \E placeholder \in ConcUnredactInputs : ConcUnredact(placeholder)

SpecConc == Init /\ [][NextConc]_vars

\* C7: two callers that both found the same text unseen receive the same
\* placeholder, the forward index holds that placeholder for the text, and the
\* reverse index holds no other placeholder for the text.
C7_NoDivergentInsert ==
    \A a, b \in Threads :
        (/\ a # b
         /\ pc[a] = "done" /\ pc[b] = "done"
         /\ local[a].fresh /\ local[b].fresh
         /\ local[a].text = local[b].text) =>
            /\ local[a].ret = local[b].ret
            /\ _mapping[local[a].text] = local[a].ret
            /\ \A p \in DOMAIN _reverse_mapping :
                   _reverse_mapping[p] = local[a].text => p = local[a].ret

\* C13: the two indices act as one atomic unit towards concurrent callers: a
\* call interleaved with a running redact never finds the forward index
\* holding t -> p while the reverse index lacks p -> t.
C13_AtomicUnit ==
    /\ (last.op = "unredact" /\ last.exc.type = "ValueError") =>
           \A t \in DOMAIN _mapping : _mapping[t] # last.placeholder
    /\ \A t \in DOMAIN _mapping :
           /\ _mapping[t] \in DOMAIN _reverse_mapping
           /\ _reverse_mapping[_mapping[t]] = t

-----------------------------------------------------------------------------
(* Two AegisProtector instances, called one call at a time *)

TwoTexts == {AllTexts[i] : i \in 1..Min(NumTwoTexts, Len(AllTexts))}

\* the categories the callers of the two instances pass: none, or "email"
TwoCategories == {None, Str(<<"e", "m", "a", "i", "l">>)}

TwoUnredactInputs ==
    {make_placeholder(t, c) : t \in {x \in TwoTexts : ~encode_raises(x)},
                              c \in TwoCategories}
        \cup {"[REDACTED_UNKNOWN]"}

\* _mapping and _reverse_mapping declared on the class: one pair of dicts
\* that every instance reads and writes
owner_shared(inst) == "A"

\* lines 12-13: __init__ binds two new dicts to the instance, so the
\* attributes of an instance are the pair its own __init__ created
owner(inst) == inst

\* self._mapping and self._reverse_mapping of an instance
Self(inst) == mappers[owner(inst)]

TwoRedact(inst, text, entity_type) ==
    LET self == Self(inst)
        out == redact(self.mapping, self.reverse_mapping, text, entity_type)
        fresh == text \notin DOMAIN self.mapping
    IN  /\ mappers' = [mappers EXCEPT ![owner(inst)] =
                          [mapping |-> out.mapping,
                           reverse_mapping |-> out.reverse_mapping]]
        /\ last' = [NoCall EXCEPT !.op = "redact", !.inst = inst, !.text = text,
                                  !.entity_type = entity_type, !.fresh = fresh,
                                  !.ret = out.ret, !.exc = out.exc]
        /\ history' = [history EXCEPT ![inst] =
               [returned |-> IF out.exc = NoExc
                             THEN @.returned \cup {<<text, out.ret>>}
                             ELSE @.returned,
                calls |-> IF fresh /\ out.exc = NoExc
                          THEN @.calls \cup {<<text, entity_type>>}
                          ELSE @.calls]]
        /\ UNCHANGED <<_mapping, _reverse_mapping, returned, pc, local>>

TwoUnredact(inst, placeholder) ==
    LET self == Self(inst)
        out == unredact(self.mapping, self.reverse_mapping, placeholder)
    IN  /\ mappers' = [mappers EXCEPT ![owner(inst)] =
                          [mapping |-> out.mapping,
                           reverse_mapping |-> out.reverse_mapping]]
        /\ last' = [NoCall EXCEPT !.op = "unredact", !.inst = inst,
                                  !.placeholder = placeholder,
                                  !.ret = out.ret, !.exc = out.exc]
        /\ UNCHANGED <<_mapping, _reverse_mapping, returned, pc, local, history>>

TwoValidateIntegrity(inst) ==
    LET self == Self(inst)
    IN  /\ last' = [NoCall EXCEPT !.op = "validate_integrity", !.inst = inst,
                        !.result = validate_integrity(self.mapping,
                                                      self.reverse_mapping)]
        /\ UNCHANGED <<_mapping, _reverse_mapping, returned, pc, local,
                       mappers, history>>

NextTwo ==
    \E inst \in Instances :
        \/ \E text \in TwoTexts, entity_type \in TwoCategories :
               TwoRedact(inst, text, entity_type)
        \/ \E placeholder \in TwoUnredactInputs : TwoUnredact(inst, placeholder)
        \/ TwoValidateIntegrity(inst)

SpecTwo == Init /\ [][NextTwo]_vars

\* C12: an operation on one instance leaves the indices of the other instance
\* unchanged, and an instance's unredact knows only the placeholders its own
\* redact calls returned.
C12_InstancesIsolated ==
    /\ [](\A i \in Instances : \A p \in TwoUnredactInputs :
              unredact(Self(i).mapping, Self(i).reverse_mapping, p).exc = NoExc
                  => p \in {pair[2] : pair \in history[i].returned})
    /\ [][\A i \in Instances : last'.inst # i => Self(i)' = Self(i)]_vars

\* B's unredact raised on a placeholder that A's redact returned and A knows
C12_Witness ==
    /\ last.inst = "B"
    /\ last.op = "unredact"
    /\ last.exc.type = "ValueError"
    /\ last.placeholder \in DOMAIN Self("A").reverse_mapping
    /\ last.placeholder \in {pair[2] : pair \in history["A"].returned}
    /\ Self("B").mapping # EmptyDict

\* C15: the placeholder of a text depends only on the text and on the category
\* of its first redact call, never on the texts the mapper saw before: it is
\* the one a new mapper would return, and two mappers that received the same
\* first-encounter calls, in whatever order, return the same placeholder for
\* each text and hold identical forward indices.
C15_OrderIndependent ==
    /\ (last.op = "redact" /\ last.fresh /\ last.exc = NoExc) =>
           last.ret = redact(EmptyDict, EmptyDict, last.text, last.entity_type).ret
    /\ \A i \in Instances : \A call \in history[i].calls :
           /\ call[1] \in DOMAIN Self(i).mapping
           /\ Self(i).mapping[call[1]]
                  = redact(EmptyDict, EmptyDict, call[1], call[2]).ret
    /\ history["A"].calls = history["B"].calls =>
           /\ Self("A").mapping = Self("B").mapping
           /\ history["A"].returned = history["B"].returned

\* both instances received the same two first-encounter calls, hold the same
\* forward index and, the calls having come in opposite orders, different
\* reverse indices
C15_Witness ==
    /\ history["A"].calls = history["B"].calls
    /\ Cardinality(history["A"].calls) = 2
    /\ Self("A").mapping = Self("B").mapping
    /\ Self("A").reverse_mapping # Self("B").reverse_mapping

====
